---------------------------- MODULE Spec2Model ----------------------------
(***************************************************************************)
(* Campaign journey and derived views of the ABM application:              *)
(*   - the campaign aggregator of App.handleSaveCampaign and of            *)
(*     Tasks.handleCompleteTask (progress, sent, total_points),            *)
(*   - the Tasks view (allTasks, displayedTasks, fetchCampaigns,           *)
(*     handleCompleteTask) of several browser sessions over one store.     *)
(*                                                                         *)
(* JavaScript values.  An optional value (a property that may be           *)
(* undefined) is a set with at most one element: {} is undefined, {v} is   *)
(* the value v.  Numbers that the code computes in double precision are    *)
(* computed here bit by bit, as IEEE 754 binary64 does.                    *)
(***************************************************************************)
EXTENDS Integers, Sequences, FiniteSets, TLC

(***************************************************************************)
(* IEEE 754 binary64 arithmetic, as far as                                 *)
(*     Math.round((completedSteps / totalSteps) * 100)                     *)
(* needs it.  The 53-bit significand of a positive double is kept in three *)
(* limbs, so that every intermediate value stays a small integer:          *)
(*     value = (hi * 2^(36-shift) + mid * 2^(18-shift) + lo) * 2^exp       *)
(* with mid < 2^18, lo < 2^(18-shift), and hi holding the leading          *)
(* 17 + shift bits.                                                        *)
(***************************************************************************)
Limb == 262144          \* 2^18
HiOne == 65536          \* 2^16, the leading 1 of a 17-bit high limb

RECURSIVE Pow2(_)
Pow2(e) == IF e = 0 THEN 1 ELSE 2 * Pow2(e - 1)

\* the least e >= 0 with 2^e * k >= n
RECURSIVE NormExp(_, _)
NormExp(k, n) == IF k >= n THEN 0 ELSE 1 + NormExp(2 * k, n)

\* the number of binary digits of v
RECURSIVE BitLen(_)
BitLen(v) == IF v = 0 THEN 0 ELSE 1 + BitLen(v \div 2)

\* add one unit in the last place, carrying through the limbs
IncLimbs(x) ==
    LET loMod == Limb \div Pow2(x.shift)
        lo1   == x.lo + 1
        mid1  == IF lo1 = loMod THEN x.mid + 1 ELSE x.mid
        hi1   == IF mid1 = Limb THEN x.hi + 1 ELSE x.hi
    IN  IF hi1 = 2 * HiOne * Pow2(x.shift)
        THEN \* the significand overflowed to a power of two
             [hi |-> HiOne * Pow2(x.shift), mid |-> 0, lo |-> 0,
              shift |-> x.shift, exp |-> x.exp + 1]
        ELSE [hi |-> hi1, mid |-> mid1 % Limb, lo |-> lo1 % loMod,
              shift |-> x.shift, exp |-> x.exp]

\* the double k / n for 0 < k <= n: 53 quotient bits by long division,
\* rounded to nearest, ties to even, on the remainder
FloatDiv(k, n) ==
    LET e  == NormExp(k, n)
        ta == k * Pow2(e) * HiOne
        tb == (ta % n) * Limb
        tc == (tb % n) * Limb
        r  == tc % n
        q  == [hi |-> ta \div n, mid |-> tb \div n, lo |-> tc \div n,
               shift |-> 0, exp |-> 0 - e - 52]
        up == 2 * r > n \/ (2 * r = n /\ q.lo % 2 = 1)
    IN  IF up THEN IncLimbs(q) ELSE q

\* the double x * m for a double x with shift 0 and a small natural m:
\* the exact product, rounded to 53 bits, ties to even
FloatMul(x, m) ==
    LET pc   == m * x.lo
        pb   == m * x.mid + pc \div Limb
        pa   == m * x.hi + pb \div Limb
        d    == BitLen(pa) - 17              \* bits beyond the 53rd
        low  == (pc % Limb) % Pow2(d)
        kept == (pc % Limb) \div Pow2(d)
        p    == [hi |-> pa, mid |-> pb % Limb, lo |-> kept,
                 shift |-> d, exp |-> x.exp + d]
        up   == d > 0 /\ (2 * low > Pow2(d) \/ (2 * low = Pow2(d) /\ kept % 2 = 1))
    IN  IF up THEN IncLimbs(p) ELSE p

\* Math.round of a double 0 < x < 2^16: the nearest integer, ties towards
\* +Infinity, that is floor(x) plus the first fraction bit
MathRound(x) ==
    LET fh == 0 - x.exp - (36 - x.shift)    \* fraction bits in the high limb
    IN  (x.hi \div Pow2(fh)) + ((x.hi \div Pow2(fh - 1)) % 2)

\* Math.round((completedSteps / totalSteps) * 100), totalSteps > 0
RoundPercent(completedSteps, totalSteps) ==
    IF completedSteps = 0 THEN 0
    ELSE MathRound(FloatMul(FloatDiv(completedSteps, totalSteps), 100))

(***************************************************************************)
(* Steps and campaigns.                                                    *)
(*   step      [id, type, day, completed, points, owner, targetContactName]*)
(*             points, owner and targetContactName are optional            *)
(*   record    a row of the campaigns table                                *)
(*   campaign  the CampaignData a Tasks session maps a row to              *)
(***************************************************************************)
MaxSteps == 3           \* longest step list of the interleaving model
MaxActive == 40         \* most non-Wait steps of the aggregator model
MaxWait == 1            \* most Wait steps of the aggregator model
MaxWrites == 2          \* most successful writes of one run
MaxSaves == 2           \* most calls of handleSaveCampaign of one run

Sessions == {"A", "B"}
Viewer == "Ana Silva"
CampaignOrder == <<"c1", "c2">>         \* the order the store lists rows in
CampaignIds == {CampaignOrder[i] : i \in 1..Len(CampaignOrder)}

\* a || b on optional values whose falsy value is the empty string
OrElse(a, b) == IF a = {} \/ a = {""} THEN b ELSE a
\* the value of an optional that is known to be defined
TheOne(a) == CHOOSE v \in a : TRUE

Step(id, type, day, completed, points, owner, target) ==
    [id |-> id, type |-> type, day |-> day, completed |-> completed,
     points |-> points, owner |-> owner, targetContactName |-> target]

\* the filter left out: Wait steps counted as active steps
ActiveSteps_KeepsWait(steps) == steps

\* steps.filter(s => s.type !== 'Wait')
ActiveSteps(steps) == SelectSeq(steps, LAMBDA s : s.type # "Wait")
\* steps.filter(s => s.completed).length
CompletedCount(steps) == Len(SelectSeq(steps, LAMBDA s : s.completed))

\* the reduce run over the active steps only: the points of Wait steps lost
RECURSIVE ReducePoints_SkipsWait(_, _, _)
ReducePoints_SkipsWait(steps, i, acc) ==
    IF i > Len(steps) THEN acc
    ELSE ReducePoints_SkipsWait(steps, i + 1,
            IF steps[i].completed /\ steps[i].type # "Wait"
            THEN acc + (IF steps[i].points = {} THEN 0 ELSE TheOne(steps[i].points))
            ELSE acc)

\* steps.reduce((acc, s) => s.completed ? acc + (s.points || 0) : acc, 0)
RECURSIVE ReducePoints(_, _, _)
ReducePoints(steps, i, acc) ==
    IF i > Len(steps) THEN acc
    ELSE ReducePoints(steps, i + 1,
            IF steps[i].completed
            THEN acc + (IF steps[i].points = {} THEN 0 ELSE TheOne(steps[i].points))
            ELSE acc)

\* handleSaveCampaign: sentCount, calculatedPoints, calculatedProgress
SaveAggregates(steps) ==
    IF Len(steps) > 0
    THEN LET activeSteps    == ActiveSteps(steps)
             totalSteps     == Len(activeSteps)
             completedSteps == CompletedCount(activeSteps)
         IN  [sent |-> completedSteps,
              total_points |-> ReducePoints(steps, 1, 0),
              progress |-> IF totalSteps > 0
                           THEN RoundPercent(completedSteps, totalSteps)
                           ELSE 0]
    ELSE [sent |-> 0, total_points |-> 0, progress |-> 0]

\* the map without its test of the id: every step's flag negated
FlipStep_EveryStep(steps, id) ==
    [i \in 1..Len(steps) |-> [steps[i] EXCEPT !.completed = ~steps[i].completed]]

\* campaign.steps.map(s => s.id === task.id ? {...s, completed: !s.completed} : s)
FlipStep(steps, id) ==
    [i \in 1..Len(steps) |->
        IF steps[i].id = id
        THEN [steps[i] EXCEPT !.completed = ~steps[i].completed]
        ELSE steps[i]]

\* handleCompleteTask: completedSteps, progress, totalPoints of updatedSteps
ToggleAggregates(updatedSteps) ==
    LET activeSteps    == ActiveSteps(updatedSteps)
        totalSteps     == Len(activeSteps)
        completedSteps == CompletedCount(activeSteps)
    IN  [sent |-> completedSteps,
         total_points |-> ReducePoints(updatedSteps, 1, 0),
         progress |-> IF totalSteps > 0
                      THEN RoundPercent(completedSteps, totalSteps)
                      ELSE 0]

(***************************************************************************)
(* The Tasks view: allTasks and displayedTasks.  A date is a number of     *)
(* days; new Date(created_at) plus setDate(getDate() + day) is created_at  *)
(* + day.                                                                  *)
(***************************************************************************)
\* currentUserProfile?.full_name || currentUserProfile?.email
CurrentUserName(prof) ==
    IF prof = {} THEN {}
    ELSE OrElse(TheOne(prof).full_name, TheOne(prof).email)

\* the FlatTask pushed for one step
TaskOf(camp, step, at) ==
    LET startDate == IF camp.created_at # {} THEN TheOne(camp.created_at) ELSE at
    IN  [id |-> step.id,
         type |-> step.type,
         date |-> startDate + step.day,
         completed |-> step.completed,
         campaignId |-> camp.id,
         companyName |-> TheOne(OrElse(camp.targetCompany, {""})),
         owner |-> TheOne(OrElse(step.owner, {"unassigned"})),
         targetContactName |-> step.targetContactName,
         points |-> step.points]

\* camp.steps.forEach: a task for every step that is not a Wait and whose
\* owner is not !== currentUserName
RECURSIVE StepTasks(_, _, _, _)
StepTasks(camp, i, userName, at) ==
    IF i > Len(camp.steps) THEN <<>>
    ELSE LET step == camp.steps[i]
             rest == StepTasks(camp, i + 1, userName, at)
         IN  IF step.type # "Wait" /\ step.owner = userName
             THEN <<TaskOf(camp, step, at)>> \o rest
             ELSE rest

\* allTasks: campaigns.forEach
RECURSIVE ProjectTasks(_, _, _, _)
ProjectTasks(camps, c, prof, at) ==
    IF c > Len(camps) THEN <<>>
    ELSE StepTasks(camps[c], 1, CurrentUserName(prof), at)
            \o ProjectTasks(camps, c + 1, prof, at)

\* the completed filter testing nothing
FilterKeep_CompletedKeepsAll(t, f) ==
    IF f = "pending" THEN ~t.completed
    ELSE TRUE

\* allTasks.filter
FilterKeep(t, f) ==
    IF f = "pending" THEN ~t.completed
    ELSE IF f = "completed" THEN t.completed
    ELSE TRUE

\* the strings of the model in the order of the default collation, which
\* ranks letters before their case
Collation == <<"", "Acme", "beta", "Bruno">>
CollationRank(str) == CHOOSE i \in 1..Len(Collation) : Collation[i] = str
\* a.localeCompare(b)
LocaleCompare(a, b) ==
    IF CollationRank(a) < CollationRank(b) THEN 0 - 1
    ELSE IF CollationRank(a) > CollationRank(b) THEN 1 ELSE 0

\* the key without the target of the step
RecipientName_CompanyOnly(t) == t.companyName

\* a.targetContactName || a.companyName || ''
RecipientName(t) == TheOne(OrElse(OrElse(t.targetContactName, {t.companyName}), {""}))

\* the date comparator with its operands swapped
SortCompare_DateDescending(a, b, method) ==
    IF method = "date" THEN b.date - a.date
    ELSE IF method = "recipient" THEN LocaleCompare(RecipientName(a), RecipientName(b))
    ELSE 0

\* the comparator of filtered.sort
SortCompare(a, b, method) ==
    IF method = "date" THEN a.date - b.date
    ELSE IF method = "recipient" THEN LocaleCompare(RecipientName(a), RecipientName(b))
    ELSE 0

\* Array.prototype.sort is a stable sort: an element goes behind every
\* element that does not compare greater than it
RECURSIVE InsertStable(_, _, _)
InsertStable(sorted, t, method) ==
    IF sorted = <<>> THEN <<t>>
    ELSE IF SortCompare(sorted[Len(sorted)], t, method) <= 0 THEN Append(sorted, t)
    ELSE Append(InsertStable(SubSeq(sorted, 1, Len(sorted) - 1), t, method),
                sorted[Len(sorted)])

RECURSIVE StableSort(_, _, _)
StableSort(tasks, i, method) ==
    IF i = 0 THEN <<>>
    ELSE InsertStable(StableSort(tasks, i - 1, method), tasks[i], method)

\* displayedTasks
DisplayedTasks(tasks, f, method) ==
    LET filtered == SelectSeq(tasks, LAMBDA t : FilterKeep(t, f))
    IN  StableSort(filtered, Len(filtered), method)

(***************************************************************************)
(* State.                                                                  *)
(***************************************************************************)
VARIABLES
    store,              \* the campaigns table: id -> row
    now,                \* the clock, in days
    campaigns,          \* Tasks: campaigns of each session
    loading,            \* Tasks: loading; true while fetchCampaigns is in flight
    updatingId,         \* Tasks: updatingId, optional
    currentUserProfile, \* Tasks: currentUserProfile, optional
    profileFetch,       \* Tasks: fetchProfile is in flight
    filter,             \* Tasks: filter
    sortMethod,         \* Tasks: sortMethod
    allTasks,           \* Tasks: the memoised allTasks
    pending,            \* Tasks: the update of handleCompleteTask in flight
    alerted,            \* Tasks: the last handleCompleteTask raised its alert
    hist,               \* the log of the successful writes of the store
    app,                \* App: campaigns, editingCampaign, currentPage, notifications
    contacts,           \* the contacts table: the row of the one contact
    page                \* ContactDetailsPage: its state, optional (mounted or not)

vars == <<store, now, campaigns, loading, updatingId, currentUserProfile,
          profileFetch, filter, sortMethod, allTasks, pending, alerted,
          hist, app, contacts, page>>

Row(name, company, steps, created, aggr) ==
    [name |-> name, target_company |-> company, status |-> "Active",
     steps |-> steps, progress |-> aggr.progress, sent |-> aggr.sent,
     total_points |-> aggr.total_points, created_at |-> created]

\* the step at position i of journey j: Wait steps at even positions, a
\* step without points at every third position
Template(j, i, completed) ==
    Step(10 * j + i, IF i % 2 = 0 THEN "Wait" ELSE "Email", i, completed,
         IF i % 3 = 0 THEN {} ELSE {5 * i}, {Viewer}, {})

\* a journey of MaxSteps steps, none of them completed
NewJourney(j) == [i \in 1..MaxSteps |-> Template(j, i, FALSE)]

ViewerProfile == [full_name |-> {Viewer}, email |-> {"ana@example.com"}]

\* data.map of Tasks.fetchCampaigns
MapRow(id, c) ==
    [id |-> id, name |-> c.name, targetCompany |-> c.target_company,
     steps |-> c.steps, status |-> c.status, created_at |-> c.created_at]

RECURSIVE MapRows(_, _)
MapRows(st, i) ==
    IF i > Len(CampaignOrder) THEN <<>>
    ELSE (IF CampaignOrder[i] \in DOMAIN st
          THEN <<MapRow(CampaignOrder[i], st[CampaignOrder[i]])>> ELSE <<>>)
         \o MapRows(st, i + 1)

Push(h, e) == Append(h, e)

RowOf(st, cid) == IF cid \in DOMAIN st THEN {st[cid]} ELSE {}

\* campaigns.find(c => c.id === task.campaignId)
FindCampaign(camps, cid) ==
    IF \E i \in 1..Len(camps) : camps[i].id = cid
    THEN {camps[CHOOSE i \in 1..Len(camps) :
                    camps[i].id = cid /\ \A k \in 1..(i - 1) : camps[k].id # cid]}
    ELSE {}

InitSession ==
    /\ campaigns = [s \in Sessions |-> <<>>]
    /\ loading = [s \in Sessions |-> TRUE]
    /\ updatingId = [s \in Sessions |-> {}]
    /\ currentUserProfile = [s \in Sessions |-> {}]
    /\ profileFetch = [s \in Sessions |-> TRUE]
    /\ filter = [s \in Sessions |-> "pending"]
    /\ sortMethod = [s \in Sessions |-> "date"]
    /\ allTasks = [s \in Sessions |-> <<>>]
    /\ pending = [s \in Sessions |-> {}]
    /\ alerted = [s \in Sessions |-> FALSE]
    /\ hist = <<>>

\* App: the useState defaults; saves is the log of the outcomes of
\* handleSaveCampaign
InitApp ==
    app = [campaigns |-> <<>>, editingCampaign |-> {}, currentPage |-> "dashboard",
           notifications |-> <<>>, initialLoading |-> TRUE, saves |-> <<>>]

\* the contact whose page may be opened
ContactName == "Bruno"

\* no contact page is open
NoContactPage ==
    /\ contacts = [name |-> ContactName, company |-> "Acme", notes |-> <<>>]
    /\ page = {}

Init ==
    /\ now = 1
    /\ store = [c \in {"c1"} |->
                   Row("Q1", {"Acme"}, NewJourney(1), {1}, SaveAggregates(NewJourney(1)))]
    /\ InitSession
    /\ InitApp
    /\ NoContactPage

(***************************************************************************)
(* Tasks: fetchProfile, fetchCampaigns, the filter and sort controls.      *)
(***************************************************************************)
\* the response of fetchProfile; data is optional
FetchProfileDone(s, data) ==
    /\ profileFetch[s]
    /\ profileFetch' = [profileFetch EXCEPT ![s] = FALSE]
    /\ currentUserProfile' = [currentUserProfile EXCEPT ![s] = IF data # {} THEN data ELSE @]
    /\ allTasks' = [allTasks EXCEPT ![s] =
                       IF data # {} THEN ProjectTasks(campaigns[s], 1, data, now) ELSE @]
    /\ UNCHANGED <<store, now, campaigns, loading, updatingId, filter, sortMethod,
                   pending, alerted, hist, app, contacts, page>>

\* the response of fetchCampaigns; without data the list is left as it is
FetchCampaignsDone(s, hasData) ==
    /\ loading[s]
    /\ loading' = [loading EXCEPT ![s] = FALSE]
    /\ campaigns' = [campaigns EXCEPT ![s] = IF hasData THEN MapRows(store, 1) ELSE @]
    /\ allTasks' = [allTasks EXCEPT ![s] =
                       IF hasData
                       THEN ProjectTasks(campaigns'[s], 1, currentUserProfile[s], now)
                       ELSE @]
    /\ UNCHANGED <<store, now, updatingId, currentUserProfile, profileFetch, filter,
                   sortMethod, pending, alerted, hist, app, contacts, page>>

SetFilter(s, f) ==
    /\ filter[s] # f
    /\ filter' = [filter EXCEPT ![s] = f]
    /\ UNCHANGED <<store, now, campaigns, loading, updatingId, currentUserProfile,
                   profileFetch, sortMethod, allTasks, pending, alerted, hist,
                   app, contacts, page>>

SetSortMethod(s, m) ==
    /\ sortMethod[s] # m
    /\ sortMethod' = [sortMethod EXCEPT ![s] = m]
    /\ UNCHANGED <<store, now, campaigns, loading, updatingId, currentUserProfile,
                   profileFetch, filter, allTasks, pending, alerted, hist,
                   app, contacts, page>>

Displayed(s) == DisplayedTasks(allTasks[s], filter[s], sortMethod[s])

(***************************************************************************)
(* Tasks: handleCompleteTask.                                              *)
(***************************************************************************)
\* the steps the toggle starts from
ToggleBase(s, cid) == TheOne(FindCampaign(campaigns[s], cid)).steps

\* the body of .update({...}) for the steps written
TogglePayload(updatedSteps) ==
    LET aggr == ToggleAggregates(updatedSteps)
    IN  [steps |-> updatedSteps, progress |-> aggr.progress,
         sent |-> aggr.sent, total_points |-> aggr.total_points]

\* the button without disabled={!!updatingId}
HandleCompleteTask_ButtonEnabled(s, i) ==
    /\ ~loading[s]
    /\ i \in 1..Len(Displayed(s))
    /\ LET task == Displayed(s)[i]
       IN  IF FindCampaign(campaigns[s], task.campaignId) = {}
           THEN UNCHANGED <<updatingId, pending, alerted>>
           ELSE /\ updatingId' = [updatingId EXCEPT ![s] = {task.id}]
                /\ alerted' = [alerted EXCEPT ![s] = FALSE]
                /\ pending' = [pending EXCEPT ![s] = @ \cup
                      {[cid |-> task.campaignId, sid |-> task.id,
                        base |-> ToggleBase(s, task.campaignId),
                        body |-> TogglePayload(
                                    FlipStep(ToggleBase(s, task.campaignId), task.id))]}]
    /\ UNCHANGED <<store, now, campaigns, loading, currentUserProfile, profileFetch,
                   filter, sortMethod, allTasks, hist, app, contacts, page>>

\* a click on the button of the i-th displayed task, up to the await: the
\* button is rendered only when loading is false, and enabled only when
\* updatingId is null; pending holds the writes awaiting their response
HandleCompleteTask(s, i) ==
    /\ ~loading[s]
    /\ updatingId[s] = {}
    /\ i \in 1..Len(Displayed(s))
    /\ LET task == Displayed(s)[i]
       IN  IF FindCampaign(campaigns[s], task.campaignId) = {}
           THEN UNCHANGED <<updatingId, pending, alerted>>
           ELSE /\ updatingId' = [updatingId EXCEPT ![s] = {task.id}]
                /\ alerted' = [alerted EXCEPT ![s] = FALSE]
                /\ pending' = [pending EXCEPT ![s] = @ \cup
                      {[cid |-> task.campaignId, sid |-> task.id,
                        base |-> ToggleBase(s, task.campaignId),
                        body |-> TogglePayload(
                                    FlipStep(ToggleBase(s, task.campaignId), task.id))]}]
    /\ UNCHANGED <<store, now, campaigns, loading, currentUserProfile, profileFetch,
                   filter, sortMethod, allTasks, hist, app, contacts, page>>

\* an update whose body lacks the steps column
UpdateRow_WithoutSteps(st, cid, body) ==
    IF cid \in DOMAIN st
    THEN [st EXCEPT ![cid] = [@ EXCEPT !.progress = body.progress,
                                       !.sent = body.sent,
                                       !.total_points = body.total_points]]
    ELSE st

\* an update without its .eq('id', cid) filter: the body on every row
UpdateRow_EveryRow(st, cid, body) ==
    [c \in DOMAIN st |-> [st[c] EXCEPT !.steps = body.steps,
                                       !.progress = body.progress,
                                       !.sent = body.sent,
                                       !.total_points = body.total_points]]

\* .update(body).eq('id', cid): the columns of the body, on the row if it exists
UpdateRow(st, cid, body) ==
    IF cid \in DOMAIN st
    THEN [st EXCEPT ![cid] = [@ EXCEPT !.steps = body.steps,
                                       !.progress = body.progress,
                                       !.sent = body.sent,
                                       !.total_points = body.total_points]]
    ELSE st

\* the update succeeded: onRefresh() starts fetchCampaigns, which sets
\* loading before its await; finally resets updatingId
ToggleWriteOk(s) ==
    /\ pending[s] # {}
    /\ Len(hist) < MaxWrites
    /\ LET p == TheOne(pending[s])
       IN  /\ store' = UpdateRow(store, p.cid, p.body)
           /\ hist' = Push(hist, [who |-> s, op |-> "toggle", cid |-> p.cid,
                                  sid |-> p.sid, base |-> p.base,
                                  before |-> RowOf(store, p.cid),
                                  alerted |-> alerted[s],
                                  input |-> {}, at |-> now])
    /\ pending' = [pending EXCEPT ![s] = {}]
    /\ loading' = [loading EXCEPT ![s] = TRUE]
    /\ updatingId' = [updatingId EXCEPT ![s] = {}]
    /\ UNCHANGED <<now, campaigns, currentUserProfile, profileFetch, filter, sortMethod,
                   allTasks, alerted, app, contacts, page>>

\* a catch block that also calls onRefresh
ToggleWriteFail_Refreshes(s) ==
    /\ pending[s] # {}
    /\ pending' = [pending EXCEPT ![s] = {}]
    /\ alerted' = [alerted EXCEPT ![s] = TRUE]
    /\ updatingId' = [updatingId EXCEPT ![s] = {}]
    /\ loading' = [loading EXCEPT ![s] = TRUE]
    /\ UNCHANGED <<store, now, campaigns, currentUserProfile, profileFetch,
                   filter, sortMethod, allTasks, hist, app, contacts, page>>

\* the rejected path without its finally block
ToggleWriteFail_KeepsUpdatingId(s) ==
    /\ pending[s] # {}
    /\ pending' = [pending EXCEPT ![s] = {}]
    /\ alerted' = [alerted EXCEPT ![s] = TRUE]
    /\ UNCHANGED <<store, now, campaigns, loading, updatingId, currentUserProfile,
                   profileFetch, filter, sortMethod, allTasks, hist, app, contacts,
                   page>>

\* the update failed: the catch block alerts; finally resets updatingId
ToggleWriteFail(s) ==
    /\ pending[s] # {}
    /\ pending' = [pending EXCEPT ![s] = {}]
    /\ alerted' = [alerted EXCEPT ![s] = TRUE]
    /\ updatingId' = [updatingId EXCEPT ![s] = {}]
    /\ UNCHANGED <<store, now, campaigns, loading, currentUserProfile, profileFetch,
                   filter, sortMethod, allTasks, hist, app, contacts, page>>

(***************************************************************************)
(* App: handleSaveCampaign.                                                *)
(***************************************************************************)
TempIds == {"camp-1"}       \* the ids that start with 'camp-'

\* campaign.id && !campaign.id.toString().startsWith('camp-')
IsUpdate(campaign) == campaign.id # {} /\ campaign.id \cap TempIds = {}

\* campaignPayload
SavePayload(campaign, at) ==
    LET aggr == SaveAggregates(campaign.steps)
    IN  [name |-> campaign.name,
         target_company |-> campaign.targetCompany,
         status |-> TheOne(OrElse(campaign.status, {"Active"})),
         progress |-> aggr.progress,
         sent |-> aggr.sent,
         total_points |-> aggr.total_points,
         steps |-> campaign.steps,
         created_at |-> IF campaign.created_at # {} THEN campaign.created_at ELSE {at},
         id |-> IF IsUpdate(campaign) THEN campaign.id ELSE {}]

\* the id the store gives a row inserted without one
FreshId(st) ==
    CampaignOrder[CHOOSE i \in 1..Len(CampaignOrder) :
                      /\ CampaignOrder[i] \notin DOMAIN st
                      /\ \A k \in 1..(i - 1) : CampaignOrder[k] \in DOMAIN st]

PayloadRow(p) ==
    [name |-> p.name, target_company |-> p.target_company, status |-> p.status,
     steps |-> p.steps, progress |-> p.progress, sent |-> p.sent,
     total_points |-> p.total_points, created_at |-> p.created_at]

\* .upsert(campaignPayload): the row with the payload's id is replaced, a
\* payload without id is inserted under a fresh id
Upsert(st, p) ==
    LET id == IF p.id # {} THEN TheOne(p.id) ELSE FreshId(st)
    IN  [c \in DOMAIN st \cup {id} |-> IF c = id THEN PayloadRow(p) ELSE st[c]]

\* data.map of App.fetchCampaigns
AppMapRow(id, c) ==
    [id |-> {id}, name |-> c.name, targetCompany |-> c.target_company,
     status |-> {c.status}, progress |-> {c.progress}, sent |-> {c.sent},
     steps |-> c.steps, totalPoints |-> {c.total_points},
     created_at |-> c.created_at]

\* .order('created_at', { ascending: false }): a goes before b when it is
\* the later one; a row without created_at goes before every other
CreatedLater(a, b) ==
    /\ b.created_at # {}
    /\ a.created_at = {} \/ TheOne(a.created_at) > TheOne(b.created_at)

RECURSIVE InsertByCreated(_, _)
InsertByCreated(rows, r) ==
    IF rows = <<>> THEN <<r>>
    ELSE IF CreatedLater(r, rows[Len(rows)])
         THEN Append(InsertByCreated(SubSeq(rows, 1, Len(rows) - 1), r), rows[Len(rows)])
         ELSE Append(rows, r)

\* App.fetchCampaigns: the rows of the store, mapped
RECURSIVE AppFetch(_, _)
AppFetch(st, i) ==
    IF i = 0 THEN <<>>
    ELSE IF CampaignOrder[i] \in DOMAIN st
         THEN InsertByCreated(AppFetch(st, i - 1),
                              AppMapRow(CampaignOrder[i], st[CampaignOrder[i]]))
         ELSE AppFetch(st, i - 1)

\* addNotification: the new notification goes first
AddNotification(notifications, type, title) ==
    <<[type |-> type, title |-> title]>> \o notifications

\* updatedCampaignData
UpdatedCampaignData(campaign, id, p) ==
    [campaign EXCEPT !.id = {id},
                     !.totalPoints = {p.total_points},
                     !.progress = {p.progress},
                     !.steps = p.steps]

\* the rejection handled as a success is: the editor is left for the list
SaveRejected_LeavesEditor(a) ==
    [a EXCEPT !.notifications = AddNotification(@, "error", "Erro"),
              !.editingCampaign = {},
              !.currentPage = "campaigns",
              !.saves = Append(@, "rejected")]

\* the catch block of handleSaveCampaign
SaveRejected(a) ==
    [a EXCEPT !.notifications = AddNotification(@, "error", "Erro"),
              !.saves = Append(@, "rejected")]

\* handleSaveCampaign after the upsert succeeded: fetchCampaigns, the
\* notification, and the editing state
SaveAccepted(a, campaign, id, p, st, hasData) ==
    [a EXCEPT !.campaigns = IF hasData THEN AppFetch(st, Len(CampaignOrder)) ELSE @,
              !.notifications = AddNotification(@, "success", "Campanha Salva!"),
              !.editingCampaign = IF IsUpdate(campaign)
                                  THEN {UpdatedCampaignData(campaign, id, p)}
                                  ELSE {},
              !.currentPage = IF IsUpdate(campaign) THEN @ ELSE "campaigns",
              !.saves = Append(@, "saved")]

\* handleSaveCampaign(campaign): the payload, the upsert and its outcome,
\* and what follows it; hasData is the outcome of the refetch
HandleSaveCampaign(campaign, ok, hasData) ==
    LET p  == SavePayload(campaign, now)
        id == IF p.id # {} THEN TheOne(p.id) ELSE FreshId(store)
    IN  /\ p.id = {} => DOMAIN store # CampaignIds
        /\ ok => Len(hist) < MaxWrites
        /\ Len(app.saves) < MaxSaves
        /\ IF ok
           THEN /\ store' = Upsert(store, p)
                /\ hist' = Push(hist, [who |-> "editor", op |-> "save", cid |-> id,
                                       sid |-> 0, base |-> p.steps,
                                       before |-> RowOf(store, id),
                                       alerted |-> FALSE,
                                       input |-> {campaign}, at |-> now])
                /\ app' = SaveAccepted(app, campaign, id, p, store', hasData)
           ELSE /\ UNCHANGED <<store, hist>>
                /\ app' = SaveRejected(app)
        /\ UNCHANGED <<now, campaigns, loading, updatingId, currentUserProfile,
                       profileFetch, filter, sortMethod, allTasks, pending, alerted,
                       contacts, page>>

(***************************************************************************)
(* App: the initial fetch and the navigation.                              *)
(***************************************************************************)
\* fetchInitialData has ended; without data the list is left as it is
FetchInitialDataDone(hasData) ==
    /\ app.initialLoading
    /\ app' = [app EXCEPT !.initialLoading = FALSE,
                          !.campaigns = IF hasData
                                        THEN AppFetch(store, Len(CampaignOrder))
                                        ELSE @]
    /\ UNCHANGED <<store, now, campaigns, loading, updatingId, currentUserProfile,
                   profileFetch, filter, sortMethod, allTasks, pending, alerted,
                   hist, contacts, page>>

\* the pages of the sidebar
SidebarPages == {"dashboard", "campaigns"}

\* handleNavigate(pg)
HandleNavigate(pg) ==
    /\ ~app.initialLoading
    /\ app' = [app EXCEPT !.currentPage = pg,
                          !.editingCampaign = IF pg = "campaigns" THEN {} ELSE @]
    /\ UNCHANGED <<store, now, campaigns, loading, updatingId, currentUserProfile,
                   profileFetch, filter, sortMethod, allTasks, pending, alerted,
                   hist, contacts, page>>

\* CampaignList.onEdit(camp), camp the i-th campaign of the list
OnEdit(i) ==
    /\ ~app.initialLoading
    /\ app.currentPage = "campaigns"
    /\ i \in 1..Len(app.campaigns)
    /\ app' = [app EXCEPT !.editingCampaign = {app.campaigns[i]},
                          !.currentPage = "campaign-editor"]
    /\ UNCHANGED <<store, now, campaigns, loading, updatingId, currentUserProfile,
                   profileFetch, filter, sortMethod, allTasks, pending, alerted,
                   hist, contacts, page>>

\* CampaignList.onCreate()
OnCreate ==
    /\ ~app.initialLoading
    /\ app.currentPage = "campaigns"
    /\ app' = [app EXCEPT !.editingCampaign = {},
                          !.currentPage = "campaign-editor"]
    /\ UNCHANGED <<store, now, campaigns, loading, updatingId, currentUserProfile,
                   profileFetch, filter, sortMethod, allTasks, pending, alerted,
                   hist, contacts, page>>

(***************************************************************************)
(* The interleaving model: two Tasks sessions and one campaign editor over *)
(* the one stored campaign.                                                *)
(***************************************************************************)
\* the journeys the editor may make of a stored one by a single edit: none,
\* a completion flag changed, the last step removed, a step appended
Edits(j, steps) ==
    {steps}
    \cup {FlipStep(steps, steps[i].id) : i \in 1..Len(steps)}
    \cup (IF Len(steps) > 0 THEN {SubSeq(steps, 1, Len(steps) - 1)} ELSE {})
    \cup (IF Len(steps) < MaxSteps
          THEN {Append(steps, Template(j, Len(steps) + 1, FALSE))} ELSE {})

\* the campaigns the editor may hand to handleSaveCampaign
EditedCampaigns ==
    {[AppMapRow(c, store[c]) EXCEPT !.steps = steps]
        : c \in DOMAIN store \cap {"c1"}, steps \in Edits(1, store["c1"].steps)}

\* a new campaign, with or without a temporary id
NewCampaigns ==
    {[id |-> id, name |-> "Q2", targetCompany |-> {"beta"}, status |-> {},
      progress |-> {}, sent |-> {}, steps |-> steps, totalPoints |-> {},
      created_at |-> {}]
        : id \in {{}} \cup {{t} : t \in TempIds},
          steps \in {NewJourney(2), FlipStep(NewJourney(2), NewJourney(2)[1].id)}}

SessionNext(s) ==
    \/ FetchProfileDone(s, {ViewerProfile})
    \/ \E hasData \in BOOLEAN : FetchCampaignsDone(s, hasData)
    \/ \E i \in 1..(2 * MaxSteps) : HandleCompleteTask(s, i)
    \/ ToggleWriteOk(s)
    \/ ToggleWriteFail(s)

Next ==
    \/ \E s \in Sessions : SessionNext(s)
    \/ \E campaign \in EditedCampaigns : HandleSaveCampaign(campaign, TRUE, TRUE)

Spec == Init /\ [][Next]_vars

(***************************************************************************)
(* The aggregator model: one Tasks session and the editor over one         *)
(* campaign whose journey has up to MaxActive non-Wait steps, the first k  *)
(* of them completed, followed by up to MaxWait Wait steps.  The viewer    *)
(* owns the first and the last non-Wait step.                              *)
(***************************************************************************)
AggJourney(n, k, w, wc) ==
    [i \in 1..(n + w) |->
        IF i <= n
        THEN Step(i, "Email", i, i <= k, IF i % 3 = 0 THEN {} ELSE {i},
                  IF i = 1 \/ i = n THEN {Viewer} ELSE {"Rui Costa"}, {})
        ELSE Step(i, "Wait", i, i - n <= wc, {5}, {Viewer}, {})]

InitAgg ==
    /\ now = 1
    /\ \E n \in 0..MaxActive, w \in 0..MaxWait :
         \E k \in 0..n, wc \in 0..w :
            store = [c \in {"c1"} |->
                        Row("Q1", {"Acme"}, AggJourney(n, k, w, wc), {1},
                            SaveAggregates(AggJourney(n, k, w, wc)))]
    /\ InitSession
    /\ InitApp
    /\ NoContactPage

\* the editor saves the stored campaign as it is
StoredCampaigns ==
    {AppMapRow(c, store[c]) : c \in DOMAIN store}

NextAgg ==
    \/ FetchProfileDone("A", {ViewerProfile})
    \/ FetchCampaignsDone("A", TRUE)
    \/ \E i \in 1..2 : HandleCompleteTask("A", i)
    \/ ToggleWriteOk("A")
    \/ \E campaign \in StoredCampaigns : HandleSaveCampaign(campaign, TRUE, TRUE)

SpecAgg == InitAgg /\ [][NextAgg]_vars

(***************************************************************************)
(* The view model: one Tasks session over two stored campaigns of two      *)
(* steps each.  The steps vary in owner, type, target and completion, the  *)
(* first campaign in its created_at, the profile in its full name.         *)
(***************************************************************************)
MaxNow == 2             \* the last day of the clock

ViewerEmail == "ana@example.com"
EmailOnlyProfile == [full_name |-> {}, email |-> {ViewerEmail}]

\* step number slot of journey j; the first step of a journey is due a day
\* after the second
ViewStep(j, slot, kind, completed) ==
    Step(10 * j + slot,
         IF kind = "wait" THEN "Wait" ELSE "Email",
         2 - slot,
         completed,
         {5},
         CASE kind = "unowned" -> {}
           [] kind = "otherCase" -> {"ana silva"}
           [] kind = "byEmail" -> {ViewerEmail}
           [] OTHER -> {Viewer},
         IF kind = "mineTarget" THEN {"Bruno"} ELSE {})

SlotKinds(j, slot) ==
    CASE j = 1 /\ slot = 1 -> {"mine", "unowned", "otherCase"}
      [] j = 1 /\ slot = 2 -> {"mineTarget", "wait"}
      [] j = 2 /\ slot = 1 -> {"mine", "byEmail"}
      [] OTHER -> {"mine"}

ViewJourneys(j) ==
    {<<ViewStep(j, 1, k1, d1), ViewStep(j, 2, k2, d2)>> :
        k1 \in SlotKinds(j, 1), k2 \in SlotKinds(j, 2), d1 \in BOOLEAN, d2 \in BOOLEAN}

InitView ==
    /\ now = 1
    /\ \E j1 \in ViewJourneys(1), j2 \in ViewJourneys(2), created \in {{}, {1}, {2}} :
          store = [c \in CampaignIds |->
                      IF c = "c1"
                      THEN Row("Q1", {"Acme"}, j1, created, SaveAggregates(j1))
                      ELSE Row("Q2", {"beta"}, j2, {1}, SaveAggregates(j2))]
    /\ InitSession
    /\ InitApp
    /\ NoContactPage

Tick ==
    /\ now < MaxNow
    /\ now' = now + 1
    /\ UNCHANGED <<store, campaigns, loading, updatingId, currentUserProfile,
                   profileFetch, filter, sortMethod, allTasks, pending, alerted, hist,
                   app, contacts, page>>

Filters == {"pending", "completed", "all"}
SortMethods == {"date", "recipient"}

NextView ==
    \/ \E data \in {{}, {ViewerProfile}, {EmailOnlyProfile}} : FetchProfileDone("A", data)
    \/ \E hasData \in BOOLEAN : FetchCampaignsDone("A", hasData)
    \/ \E f \in Filters : SetFilter("A", f)
    \/ \E m \in SortMethods : SetSortMethod("A", m)
    \/ Tick

SpecView == InitView /\ [][NextView]_vars

(***************************************************************************)
(* The editor model: the campaign editor alone, saving new campaigns and   *)
(* edits of stored ones as the days pass.                                  *)
(***************************************************************************)
\* the stored campaign was created on day 1, or before created_at was kept
InitSave ==
    /\ now = 1
    /\ \E created \in {{}, {1}} :
          store = [c \in {"c1"} |->
                     Row("Q1", {"Acme"}, NewJourney(1), created,
                         SaveAggregates(NewJourney(1)))]
    /\ InitSession
    /\ InitApp
    /\ NoContactPage

\* what the editor can hand to onSave: the campaign it was opened with, as
\* it is or with its first step toggled, or a new campaign when it was
\* opened with none
EditorCampaigns ==
    IF app.editingCampaign = {}
    THEN NewCampaigns
    ELSE LET c == TheOne(app.editingCampaign)
         IN  {[c EXCEPT !.steps = steps] :
                 steps \in {c.steps} \cup {FlipStep(c.steps, c.steps[i].id)
                                              : i \in DOMAIN c.steps \cap {1}}}

NextSave ==
    \/ \E hasData \in BOOLEAN : FetchInitialDataDone(hasData)
    \/ \E pg \in SidebarPages : HandleNavigate(pg)
    \/ \E i \in 1..Cardinality(CampaignIds) : OnEdit(i)
    \/ OnCreate
    \/ /\ app.currentPage = "campaign-editor"
       /\ \E campaign \in EditorCampaigns, ok \in BOOLEAN, hasData \in BOOLEAN :
             HandleSaveCampaign(campaign, ok, hasData)
    \/ Tick

SpecSave == InitSave /\ [][NextSave]_vars

(***************************************************************************)
(* Properties.                                                             *)
(***************************************************************************)
NonWaitIdx(steps) == {i \in 1..Len(steps) : steps[i].type # "Wait"}
DoneIdx(steps) == {i \in 1..Len(steps) : steps[i].completed}

\* the sum of the points of the steps at the positions of S, a missing
\* points value counting as 0
RECURSIVE SumPointsOver(_, _)
SumPointsOver(S, steps) ==
    IF S = {} THEN 0
    ELSE LET i == CHOOSE x \in S : TRUE
         IN  (IF steps[i].points = {} THEN 0 ELSE TheOne(steps[i].points))
                + SumPointsOver(S \ {i}, steps)

\* p is num/den rounded to the nearest integer, a half rounded away from
\* zero (num >= 0, den > 0)
IsRoundHalfAway(p, num, den) ==
    /\ 2 * p * den - 2 * num <= den
    /\ 2 * num - 2 * p * den < den

LastWrite == hist[Len(hist)]
WrittenRow == store[LastWrite.cid]

\* C1: in every state of the store that saves and toggles of whatever
\* sessions have led to, every row's progress, sent and total_points are the
\* aggregates of the steps of that row: sent the number of completed
\* non-Wait steps, total_points the sum of the points of the completed
\* steps, progress 100 * sent / (number of non-Wait steps) rounded to the
\* nearest integer, or 0 without a non-Wait step.
C1_DerivedFieldsMatchSteps ==
    hist # <<>> =>
        \A c \in DOMAIN store :
            LET steps == store[c].steps
                n == Cardinality(NonWaitIdx(steps))
                k == Cardinality(NonWaitIdx(steps) \cap DoneIdx(steps))
            IN  /\ store[c].sent = k
                /\ store[c].total_points = SumPointsOver(DoneIdx(steps), steps)
                /\ n > 0 => IsRoundHalfAway(store[c].progress, 100 * k, n)
                /\ n = 0 => store[c].progress = 0

\* C2: for a step list with n > 0 non-Wait steps of which k are completed,
\* the progress a save or a toggle writes is 100k/n rounded to the nearest
\* integer, a half away from zero, and lies in 0..100.
C2_ProgressIsRoundedPercent ==
    hist # <<>> =>
        LET n == Cardinality(NonWaitIdx(WrittenRow.steps))
            k == Cardinality(NonWaitIdx(WrittenRow.steps) \cap DoneIdx(WrittenRow.steps))
        IN  n > 0 => /\ IsRoundHalfAway(WrittenRow.progress, 100 * k, n)
                     /\ WrittenRow.progress \in 0..100

\* C3: the total_points a save or a toggle writes is the sum of the points
\* of all completed steps of the written list, Wait steps included, a step
\* without points counting as 0.
C3_TotalPointsSumsCompleted ==
    hist # <<>> =>
        WrittenRow.total_points = SumPointsOver(DoneIdx(WrittenRow.steps), WrittenRow.steps)

\* a toggle wrote a list with a completed Wait step that carries points
\* and a completed step without points
C3_Witness ==
    /\ hist # <<>>
    /\ LastWrite.op = "toggle"
    /\ \E i \in DoneIdx(WrittenRow.steps) :
          WrittenRow.steps[i].type = "Wait" /\ WrittenRow.steps[i].points # {}
    /\ \E i \in DoneIdx(WrittenRow.steps) : WrittenRow.steps[i].points = {}
    /\ WrittenRow.total_points >
          SumPointsOver(DoneIdx(WrittenRow.steps) \cap NonWaitIdx(WrittenRow.steps),
                        WrittenRow.steps)

\* C4: for a step list without a non-Wait step, empty or of Wait steps
\* only, completed or not, the write sets progress = 0 and sent = 0.
C4_NoActiveStepsZero ==
    hist # <<>> =>
        (NonWaitIdx(WrittenRow.steps) = {} =>
            WrittenRow.progress = 0 /\ WrittenRow.sent = 0)

\* a save wrote a list of Wait steps only, one of them completed
C4_Witness ==
    /\ hist # <<>>
    /\ LastWrite.op = "save"
    /\ WrittenRow.steps # <<>>
    /\ NonWaitIdx(WrittenRow.steps) = {}
    /\ DoneIdx(WrittenRow.steps) # {}

CompletedFlags(steps) == [i \in 1..Len(steps) |-> steps[i].completed]

\* C5: when a session toggles the same step twice in succession, no other
\* write coming between and the first toggle starting from the stored list,
\* the row has again the progress, sent, total_points and completed flags
\* it had before the first toggle.
C5_DoubleToggleRestores ==
    Len(hist) >= 2 =>
        LET e1 == hist[Len(hist) - 1]
            e2 == hist[Len(hist)]
        IN  (/\ e1.op = "toggle" /\ e2.op = "toggle"
             /\ e1.who = e2.who /\ e1.cid = e2.cid /\ e1.sid = e2.sid
             /\ e1.before # {}
             /\ e1.base = TheOne(e1.before).steps)
            => /\ store[e2.cid].progress = TheOne(e1.before).progress
               /\ store[e2.cid].sent = TheOne(e1.before).sent
               /\ store[e2.cid].total_points = TheOne(e1.before).total_points
               /\ CompletedFlags(store[e2.cid].steps)
                     = CompletedFlags(TheOne(e1.before).steps)

\* two sessions toggled different steps of one campaign from the same list,
\* one write after the other, both successful
RacingToggles ==
    /\ Len(hist) >= 2
    /\ LET e1 == hist[Len(hist) - 1]
           e2 == hist[Len(hist)]
       IN  /\ e1.op = "toggle" /\ e2.op = "toggle"
           /\ e1.who # e2.who /\ e1.cid = e2.cid /\ e1.sid # e2.sid
           /\ e1.base = e2.base

\* C6: when two sessions each read a campaign, each toggle a different step
\* of it and both writes succeed, the stored step list is the list they read
\* with the second toggle alone: the first toggle is gone, and neither
\* session was alerted.
C6_SecondToggleClobbersFirst ==
    RacingToggles =>
        LET e1 == hist[Len(hist) - 1]
            e2 == hist[Len(hist)]
        IN  /\ store[e2.cid].steps = FlipStep(e2.base, e2.sid)
            /\ \A i \in 1..Len(e2.base) :
                  e2.base[i].id = e1.sid =>
                     store[e2.cid].steps[i].completed = e2.base[i].completed
            /\ ~e1.alerted /\ ~e2.alerted

C6_Witness ==
    /\ RacingToggles
    /\ \E i \in 1..Len(LastWrite.base) : LastWrite.base[i].id = hist[Len(hist) - 1].sid
    /\ TheOne(LastWrite.before).steps = FlipStep(LastWrite.base, hist[Len(hist) - 1].sid)

\* the identity of the viewer: the full name of the profile or, when that
\* is absent, its email; none before a profile is loaded
ViewerIdentity(prof) ==
    IF prof = {} THEN {}
    ELSE IF TheOne(prof).full_name \notin {{}, {""}} THEN TheOne(prof).full_name
    ELSE TheOne(prof).email

\* the step of the session's campaigns a task was made of
SourceCampaign(s, t) == TheOne(FindCampaign(campaigns[s], t.campaignId))
SourceStep(s, t) ==
    LET steps == SourceCampaign(s, t).steps
    IN  steps[CHOOSE i \in 1..Len(steps) : steps[i].id = t.id]

\* a step owned by the viewer: its owner is a string, and that string is
\* the identity of the viewer
OwnedByViewer(step, prof) ==
    /\ step.owner # {}
    /\ step.owner = ViewerIdentity(prof)

\* C7: in every state of the Tasks view, also before the profile has
\* loaded, every projected task comes from a step whose owner is exactly
\* the string that is the viewer's identity.
C7_TasksOwnedByViewer ==
    \A s \in Sessions : \A i \in 1..Len(allTasks[s]) :
        OwnedByViewer(SourceStep(s, allTasks[s][i]), currentUserProfile[s])

\* the (campaign, step) pairs of a session that are not a Wait and are
\* owned by the viewer
OwnedPairs(s) ==
    {<<c, i>> \in (1..Len(campaigns[s])) \X (1..2 * MaxSteps) :
        /\ i <= Len(campaigns[s][c].steps)
        /\ campaigns[s][c].steps[i].type # "Wait"
        /\ OwnedByViewer(campaigns[s][c].steps[i], currentUserProfile[s])}

\* C8: no task is made of a Wait step, and under the filter all the list
\* has exactly one task for each non-Wait step owned by the viewer in each
\* campaign.
C8_OneTaskPerOwnedStep ==
    \A s \in Sessions :
        LET listed == DisplayedTasks(allTasks[s], "all", sortMethod[s])
        IN  /\ \A i \in 1..Len(listed) : listed[i].type # "Wait"
            /\ \A i \in 1..Len(listed) : SourceStep(s, listed[i]).type # "Wait"
            /\ Len(listed) = Cardinality(OwnedPairs(s))
            /\ \A p \in OwnedPairs(s) :
                  Cardinality({i \in 1..Len(listed) :
                      /\ listed[i].campaignId = campaigns[s][p[1]].id
                      /\ listed[i].id = campaigns[s][p[1]].steps[p[2]].id}) = 1

Range(seq) == {seq[i] : i \in 1..Len(seq)}

\* C9: the pending list has exactly the tasks that are not completed, the
\* completed list exactly those that are, the list of all has every task;
\* pending and completed are disjoint and together make up all.
C9_FilterPartitions ==
    \A s \in Sessions :
        LET every == DisplayedTasks(allTasks[s], "all", sortMethod[s])
            pend  == DisplayedTasks(allTasks[s], "pending", sortMethod[s])
            comp  == DisplayedTasks(allTasks[s], "completed", sortMethod[s])
        IN  /\ Range(pend) = {t \in Range(allTasks[s]) : ~t.completed}
            /\ Range(comp) = {t \in Range(allTasks[s]) : t.completed}
            /\ Range(every) = Range(allTasks[s])
            /\ Len(every) = Len(allTasks[s])
            /\ Len(pend) + Len(comp) = Len(every)
            /\ Range(pend) \cap Range(comp) = {}
            /\ Range(pend) \cup Range(comp) = Range(every)
            /\ filter[s] = "pending" => \A i \in 1..Len(Displayed(s)) : ~Displayed(s)[i].completed
            /\ filter[s] = "completed" => \A i \in 1..Len(Displayed(s)) : Displayed(s)[i].completed

\* the completed list is shown while there are pending tasks too
C9_Witness ==
    /\ filter["A"] = "completed"
    /\ Len(Displayed("A")) >= 2
    /\ Len(Displayed("A")) < Len(allTasks["A"])

\* the position at which the projector emitted a task
EmitIndex(s, t) == CHOOSE i \in 1..Len(allTasks[s]) : allTasks[s][i] = t

\* C10: sorted by date, the displayed list is in non-decreasing order of
\* due date, the due date of a task being created_at of its campaign plus
\* the day of its step, and tasks of the same due date are in the order
\* the projector emitted them in.
C10_ByDateSortedStable ==
    \A s \in Sessions :
        sortMethod[s] = "date" =>
            LET d == Displayed(s)
            IN  /\ \A i, j \in 1..Len(d) :
                      i < j => /\ d[i].date <= d[j].date
                               /\ d[i].date = d[j].date
                                     => EmitIndex(s, d[i]) < EmitIndex(s, d[j])
                /\ \A i \in 1..Len(d) :
                      SourceCampaign(s, d[i]).created_at # {} =>
                          d[i].date = TheOne(SourceCampaign(s, d[i]).created_at)
                                         + SourceStep(s, d[i]).day

\* a displayed list with two tasks of one due date from different
\* campaigns, and in another order than the projector's
C10_Witness ==
    /\ sortMethod["A"] = "date"
    /\ LET d == Displayed("A")
       IN  /\ Len(d) >= 3
           /\ \E i, j \in 1..Len(d) :
                 i < j /\ d[i].date = d[j].date /\ d[i].campaignId # d[j].campaignId
           /\ \E i, j \in 1..Len(d) :
                 i < j /\ EmitIndex("A", d[i]) > EmitIndex("A", d[j])

\* the UTF-16 code units of the strings of Collation
CodeUnits(str) ==
    CASE str = "Acme"  -> <<65, 99, 109, 101>>
      [] str = "beta"  -> <<98, 101, 116, 97>>
      [] str = "Bruno" -> <<66, 114, 117, 110, 111>>
      [] OTHER         -> <<>>

\* u precedes v in the lexicographic order of their code units, or is v
RECURSIVE LexLeq(_, _)
LexLeq(u, v) ==
    IF u = <<>> THEN TRUE
    ELSE IF v = <<>> THEN FALSE
    ELSE IF u[1] # v[1] THEN u[1] < v[1]
    ELSE LexLeq(Tail(u), Tail(v))

\* the sort key the recipient order is stated on: the target individual
\* of the step or, when none is set, the target company of the campaign
RecipientKey(s, t) ==
    LET target == SourceStep(s, t).targetContactName
    IN  IF target \notin {{}, {""}} THEN TheOne(target)
        ELSE TheOne(OrElse(SourceCampaign(s, t).targetCompany, {""}))

\* C11 as stated: sorted by recipient, the displayed list is in ascending
\* lexicographic order of the key (target individual, else target company),
\* and tasks of equal keys are in the order the projector emitted them in.
C11_ByRecipientLexicographic ==
    \A s \in Sessions :
        sortMethod[s] = "recipient" =>
            LET d == Displayed(s)
            IN  \A i, j \in 1..Len(d) :
                    i < j => /\ LexLeq(CodeUnits(RecipientKey(s, d[i])),
                                       CodeUnits(RecipientKey(s, d[j])))
                             /\ RecipientKey(s, d[i]) = RecipientKey(s, d[j])
                                   => EmitIndex(s, d[i]) < EmitIndex(s, d[j])

\* C11 amended: sorted by recipient, the displayed list is in ascending
\* order of the key under localeCompare, the collation of the locale, in
\* which "beta" precedes "Bruno"; tasks of equal keys are in the order the
\* projector emitted them in.
C11_ByRecipientCollated ==
    \A s \in Sessions :
        sortMethod[s] = "recipient" =>
            LET d == Displayed(s)
            IN  \A i, j \in 1..Len(d) :
                    i < j => /\ LocaleCompare(RecipientKey(s, d[i]),
                                              RecipientKey(s, d[j])) <= 0
                             /\ RecipientKey(s, d[i]) = RecipientKey(s, d[j])
                                   => EmitIndex(s, d[i]) < EmitIndex(s, d[j])

\* a list sorted by recipient in which a key comes from the target of a
\* step and another from the company, two tasks share a key, and the order
\* is not the projector's
C11_Witness ==
    /\ sortMethod["A"] = "recipient"
    /\ LET d == Displayed("A")
       IN  /\ \E i \in 1..Len(d) : d[i].targetContactName # {}
           /\ \E i, j \in 1..Len(d) :
                 i < j /\ RecipientKey("A", d[i]) = RecipientKey("A", d[j])
           /\ \E i, j \in 1..Len(d) :
                 i < j /\ EmitIndex("A", d[i]) > EmitIndex("A", d[j])


\* the last write is a save of handleSaveCampaign, and the campaign it was
\* called with
LastIsSave == hist # <<>> /\ LastWrite.op = "save"
SavedCampaign == TheOne(LastWrite.input)

\* C17 as stated: after a save, the created_at written is the save time when
\* the campaign was new, and the created_at of the record that was stored
\* for the campaign when it was an update (of a stored record that has a
\* created_at: the stamping of a record stored without one is let pass).
C17_CreatedAtOfStoredRecord ==
    LastIsSave =>
        IF IsUpdate(SavedCampaign)
        THEN \A r \in LastWrite.before :
                 r.created_at # {} => WrittenRow.created_at = r.created_at
        ELSE WrittenRow.created_at = {LastWrite.at}

\* what the code does instead: after a save, the created_at written is the
\* created_at of the campaign handed to handleSaveCampaign when it has one,
\* and the save time when it has none, whether the campaign is new or an
\* update.
CreatedAtOfIncomingRecord ==
    LastIsSave =>
        WrittenRow.created_at =
            IF SavedCampaign.created_at # {} THEN SavedCampaign.created_at
            ELSE {LastWrite.at}

\* an update of a stored campaign without created_at was stamped with the
\* save time, a day after an earlier update had stamped it
RestampedUpdate ==
    /\ LastIsSave
    /\ IsUpdate(SavedCampaign)
    /\ SavedCampaign.created_at = {}
    /\ \E r \in LastWrite.before : r.created_at # {} /\ r.created_at # {LastWrite.at}
    /\ WrittenRow.created_at = {LastWrite.at}


\* the step is a call of handleSaveCampaign with the given outcome
SaveStep(outcome) ==
    /\ Len(app'.saves) = Len(app.saves) + 1
    /\ app'.saves[Len(app'.saves)] = outcome

\* C18: a call of handleSaveCampaign whose write the store rejects adds an
\* error notification in front of the others and changes neither the local
\* campaign list, nor the campaign of the editing session, nor the current
\* page, nor the store, and no write follows from it.
C18_RejectedSaveOnlyNotifies ==
    [][SaveStep("rejected") =>
          /\ Len(app'.notifications) = Len(app.notifications) + 1
          /\ app'.notifications[1].type = "error"
          /\ SubSeq(app'.notifications, 2, Len(app'.notifications)) = app.notifications
          /\ app'.campaigns = app.campaigns
          /\ app'.editingCampaign = app.editingCampaign
          /\ app'.currentPage = app.currentPage
          /\ store' = store
          /\ hist' = hist]_vars

\* a save of a campaign open in the editor, with a campaign list loaded, has
\* just been rejected
C18_Witness ==
    /\ app.saves # <<>>
    /\ app.saves[Len(app.saves)] = "rejected"
    /\ app.notifications # <<>>
    /\ app.notifications[1].type = "error"
    /\ app.editingCampaign # {}
    /\ app.campaigns # <<>>
    /\ app.currentPage = "campaign-editor"

\* C19 as stated: a call of handleSaveCampaign for an existing campaign whose
\* write succeeds leaves the local campaign list equal to the rows of the
\* store, the campaign of the editing session with progress, sent and
\* totalPoints equal to the aggregates of its steps, and the current page
\* the campaign editor.
C19_UpdateRefetchesAndPatches ==
    [][(SaveStep("saved") /\ IsUpdate(TheOne(hist'[Len(hist')].input))) =>
          /\ app'.campaigns = AppFetch(store', Len(CampaignOrder))
          /\ \E e \in app'.editingCampaign :
                LET aggr == SaveAggregates(e.steps)
                IN  /\ e.progress = {aggr.progress}
                    /\ e.sent = {aggr.sent}
                    /\ e.totalPoints = {aggr.total_points}
          /\ app'.currentPage = "campaign-editor"]_vars


(***************************************************************************)
(* ContactDetailsPage: the notes text and its history markers.  A text is  *)
(* a sequence of pieces: "[HISTORY:", "MOVED:", "]", the blank " ", the    *)
(* line break "\n", the ISO strings of the days, and words that hold none  *)
(* of the former.                                                          *)
(***************************************************************************)
\* toISOString() of the days
IsoDays == <<"2024-01-01T00:00:00.000Z", "2024-01-02T00:00:00.000Z",
            "2024-01-03T00:00:00.000Z", "2024-01-04T00:00:00.000Z",
            "2024-01-05T00:00:00.000Z">>

\* new Date().toISOString() on day t
ToISOString(t) == IsoDays[t]

\* new Date(dateStr) of the text between "MOVED:" and "] ": the day of an
\* ISO string, Invalid Date (no value) for any other text
NewDate(dateStr) ==
    IF Len(dateStr) = 1
    THEN {t \in DOMAIN IsoDays : IsoDays[t] = dateStr[1]}
    ELSE {}

\* `Mudou da empresa ${data.company} para ${formData.company}`
MovedMessage(from, to) ==
    <<"Mudou da empresa", " ", from, " ", "para", " ", to>>

\* the line written without its leading line break
MovedLine_NoLineBreak(t, from, to) ==
    <<"[HISTORY:", "MOVED:", ToISOString(t), "]", " ">> \o MovedMessage(from, to)

\* `\n[HISTORY:MOVED:${dateStr}] ` and the message
MovedLine(t, from, to) ==
    <<"\n", "[HISTORY:", "MOVED:", ToISOString(t), "]", " ">>
    \o MovedMessage(from, to)

\* .*?\]<blank> from position i: the position of the first "]" followed by
\* a blank on the line, 0 when the line has none
RECURSIVE FindCloser(_, _)
FindCloser(text, i) ==
    IF i >= Len(text) \/ text[i] = "\n" THEN 0
    ELSE IF text[i] = "]" /\ text[i + 1] = " " THEN i
    ELSE FindCloser(text, i + 1)

\* .* from position i: the position of the last piece of the line
RECURSIVE LineEnd(_, _)
LineEnd(text, i) ==
    IF i > Len(text) \/ text[i] = "\n" THEN i - 1
    ELSE LineEnd(text, i + 1)

\* the matches of /\[HISTORY:MOVED:(.*?)\] (.*)/g from position i on, each
\* with its two groups; exec resumes after the end of the last match
RECURSIVE HistoryMatches(_, _)
HistoryMatches(text, i) ==
    IF i >= Len(text) THEN <<>>
    ELSE IF /\ text[i] = "[HISTORY:"
            /\ text[i + 1] = "MOVED:"
            /\ FindCloser(text, i + 2) # 0
         THEN LET j == FindCloser(text, i + 2)
                  e == LineEnd(text, j + 2)
              IN  <<[dateStr |-> SubSeq(text, i + 2, j - 1),
                     message |-> SubSeq(text, j + 2, e)]>>
                  \o HistoryMatches(text, e + 1)
         ELSE HistoryMatches(text, i + 1)

\* .replace(/\[HISTORY:.*?\] .*/g, '') from position i on
RECURSIVE StripHistory(_, _)
StripHistory(text, i) ==
    IF i > Len(text) THEN <<>>
    ELSE IF text[i] = "[HISTORY:" /\ FindCloser(text, i + 1) # 0
         THEN StripHistory(text, LineEnd(text, FindCloser(text, i + 1) + 2) + 1)
         ELSE <<text[i]>> \o StripHistory(text, i + 1)

WhiteSpace == {" ", "\n"}

\* .trim()
RECURSIVE Trim(_)
Trim(text) ==
    IF text = <<>> THEN <<>>
    ELSE IF text[1] \in WhiteSpace THEN Trim(Tail(text))
    ELSE IF text[Len(text)] \in WhiteSpace THEN Trim(SubSeq(text, 1, Len(text) - 1))
    ELSE text

\* displayNotes
DisplayNotes(pg) ==
    IF pg.isEditing THEN pg.formData.notes
    ELSE Trim(StripHistory(pg.data.notes, 1))


(***************************************************************************)
(* ContactDetailsPage: the timeline.                                       *)
(***************************************************************************)
\* the id of a timeline item: `camp-${camp.id}`, `task-${step.id}`,
\* `hist-${dateStr}` or 'creation'
ItemId(prefix, camp, step, dateStr) ==
    [prefix |-> prefix, camp |-> camp, step |-> step, dateStr |-> dateStr]

\* a TimelineItem; its date has no value when it is an Invalid Date
TimelineItem(id, type, date, description) ==
    [id |-> id, type |-> type, date |-> date, description |-> description]

\* the creation event pushed twice
CreationItems_Twice(at) ==
    <<TimelineItem(ItemId("creation", "", 0, <<>>), "creation", {at},
                   <<"Adicionado">>),
      TimelineItem(ItemId("creation", "", 0, <<>>), "creation", {at},
                   <<"Adicionado">>)>>

\* items.push({ id: 'creation', ... date: new Date() })
CreationItems(at) ==
    <<TimelineItem(ItemId("creation", "", 0, <<>>), "creation", {at},
                   <<"Adicionado">>)>>

\* isTarget without the comparison with the contact's name
IsTarget_UntargetedOnly(step, data) == step.targetContactName \in {{}, {""}}

\* isTarget
IsTarget(step, data) ==
    \/ step.targetContactName \in {{}, {""}}
    \/ step.targetContactName = {data.name}

\* camp.created_at ? new Date(camp.created_at) : new Date()
StartDate(camp, at) == IF camp.created_at # {} THEN TheOne(camp.created_at) ELSE at

\* the item of a completed step
TaskItem(camp, step, at) ==
    TimelineItem(ItemId("task-", "", step.id, <<>>), "campaign",
                 {StartDate(camp, at) + step.day},
                 <<"Executado por: ", TheOne(OrElse(step.owner, {"Sistema"}))>>)

\* camp.steps.forEach
RECURSIVE StepItems(_, _, _, _)
StepItems(camp, i, data, at) ==
    IF i > Len(camp.steps) THEN <<>>
    ELSE (IF camp.steps[i].completed /\ IsTarget(camp.steps[i], data)
          THEN <<TaskItem(camp, camp.steps[i], at)>> ELSE <<>>)
         \o StepItems(camp, i + 1, data, at)

\* relatedCampaigns.forEach
RECURSIVE CampaignItems(_, _, _, _)
CampaignItems(camps, k, data, at) ==
    IF k > Len(camps) THEN <<>>
    ELSE <<TimelineItem(ItemId("camp-", camps[k].id, 0, <<>>), "campaign",
                        {StartDate(camps[k], at)}, <<"Objetivo">>)>>
         \o StepItems(camps[k], 1, data, at)
         \o CampaignItems(camps, k + 1, data, at)

\* the items of the matches of the history markers
HistoryItems(notes) ==
    LET matches == HistoryMatches(notes, 1)
    IN  [n \in 1..Len(matches) |->
            TimelineItem(ItemId("hist-", "", 0, matches[n].dateStr), "job_change",
                         NewDate(matches[n].dateStr), matches[n].message)]

\* items, before the sort
PushedItems(data, relatedCampaigns, at) ==
    CreationItems(at) \o CampaignItems(relatedCampaigns, 1, data, at)
    \o HistoryItems(data.notes)

\* the comparator with its operands exchanged
TimelineCompare_Ascending(a, b) == TheOne(a.date) - TheOne(b.date)

\* (a, b) => b.date.getTime() - a.date.getTime(), of two valid dates
TimelineCompare(a, b) == TheOne(b.date) - TheOne(a.date)

\* Array.prototype.sort is stable: x goes after every item it does not
\* have to precede
RECURSIVE InsertByDate(_, _)
InsertByDate(sorted, x) ==
    IF sorted = <<>> THEN <<x>>
    ELSE IF TimelineCompare(sorted[Len(sorted)], x) > 0
         THEN Append(InsertByDate(SubSeq(sorted, 1, Len(sorted) - 1), x),
                     sorted[Len(sorted)])
         ELSE Append(sorted, x)

RECURSIVE SortByDate(_, _)
SortByDate(items, n) ==
    IF n = 0 THEN <<>> ELSE InsertByDate(SortByDate(items, n - 1), items[n])

\* every order of the items
AllOrders(items) ==
    {[n \in 1..Len(items) |-> items[f[n]]] : f \in Permutations(1..Len(items))}

\* items.sort(...): the stable descending order when every date is valid;
\* with an Invalid Date the comparator yields NaN, it is not a consistent
\* comparator and the order is whatever the implementation produces
SortedItems(items) ==
    IF \A n \in 1..Len(items) : items[n].date # {}
    THEN {SortByDate(items, Len(items))}
    ELSE AllOrders(items)

\* the values timelineItems can have for a state of the page
TimelineItems(pg) ==
    SortedItems(PushedItems(pg.data, pg.relatedCampaigns, pg.memoAt))


(***************************************************************************)
(* ContactDetailsPage: its state and its handlers.                         *)
(***************************************************************************)
MaxMoves == 2           \* most history markers in the notes a save writes
MaxInFlight == 2        \* most writes of a contact page awaiting their response

\* the names of availableCompanies, the options of the company select
CompanyNames == {"Acme", "beta"}

\* notes texts: empty, free text, free text and a company change, a marker
\* that is no company change, a company change with a date that is none
NotesTexts ==
    {<<>>,
     <<"ok">>,
     <<"ok">> \o MovedLine(1, "beta", "Acme"),
     <<"[HISTORY:", "CALL", "]", " ", "ligar">>,
     <<"[HISTORY:", "MOVED:", "soon", "]", " ", "ok">>}

\* what the user leaves in the notes textarea: nothing, or free text alone
TypedNotes == {<<>>, <<"ok">>}

\* the campaigns stored while a contact page is open: one per company, with
\* and without created_at; completed steps without target, for the contact,
\* for someone else, with and without owner
ContactStore ==
    LET j1 == <<Step(11, "Email", 0, TRUE, {5}, {Viewer}, {}),
                Step(12, "Call", 1, TRUE, {5}, {Viewer}, {"Carla"})>>
        j2 == <<Step(21, "Email", 1, TRUE, {5}, {}, {ContactName}),
                Step(22, "Email", 2, FALSE, {5}, {Viewer}, {""})>>
    IN  [c \in CampaignIds |->
            IF c = "c1" THEN Row("Q1", {"Acme"}, j1, {1}, SaveAggregates(j1))
            ELSE Row("Q2", {"beta"}, j2, {}, SaveAggregates(j2))]

InitContact ==
    /\ now = 1
    /\ store = ContactStore
    /\ InitSession
    /\ InitApp
    /\ \E company \in CompanyNames \cup {""}, notes \in NotesTexts :
          contacts = [name |-> ContactName, company |-> company, notes |-> notes]
    /\ page = {}

\* campaigns.map of fetchRelatedCampaigns
RelatedRow(id, c) ==
    [id |-> id, name |-> c.name, status |-> c.status, created_at |-> c.created_at,
     steps |-> c.steps]

\* .select('*').eq('target_company', company)
RECURSIVE RelatedRows(_, _, _)
RelatedRows(st, company, i) ==
    IF i > Len(CampaignOrder) THEN <<>>
    ELSE (IF CampaignOrder[i] \in DOMAIN st
             /\ st[CampaignOrder[i]].target_company = {company}
          THEN <<RelatedRow(CampaignOrder[i], st[CampaignOrder[i]])>> ELSE <<>>)
         \o RelatedRows(st, company, i + 1)

\* the effect on [data.company]: a fetch starts unless the company is empty
StartedFetches(company) == IF company = "" THEN {} ELSE {company}

\* the page is mounted with the contact: initialData, the useState defaults,
\* the first run of the effects and of the memo
OpenContact ==
    /\ page = {}
    /\ page' = {[data |-> contacts, formData |-> contacts, isEditing |-> FALSE,
                 relatedCampaigns |-> <<>>,
                 fetching |-> StartedFetches(contacts.company),
                 saving |-> {}, alert |-> {}, rejected |-> FALSE,
                 memoAt |-> now]}
    /\ UNCHANGED <<store, now, campaigns, loading, updatingId, currentUserProfile,
                   profileFetch, filter, sortMethod, allTasks, pending, alerted,
                   hist, app, contacts>>

\* a fetchRelatedCampaigns started for company has ended; without data the
\* list is left as it is
FetchRelatedCampaignsDone(company, hasData) ==
    /\ \E pg \in page :
          /\ company \in pg.fetching
          /\ page' = {[pg EXCEPT
                        !.fetching = @ \ {company},
                        !.relatedCampaigns =
                            IF hasData THEN RelatedRows(store, company, 1) ELSE @,
                        !.memoAt = IF hasData THEN now ELSE @]}
    /\ UNCHANGED <<store, now, campaigns, loading, updatingId, currentUserProfile,
                   profileFetch, filter, sortMethod, allTasks, pending, alerted,
                   hist, app, contacts>>

HandleEditClick ==
    /\ \E pg \in page :
          /\ ~pg.isEditing
          /\ page' = {[pg EXCEPT !.formData = pg.data, !.isEditing = TRUE,
                                  !.alert = {}, !.rejected = FALSE]}
    /\ UNCHANGED <<store, now, campaigns, loading, updatingId, currentUserProfile,
                   profileFetch, filter, sortMethod, allTasks, pending, alerted,
                   hist, app, contacts>>

\* handleChange(field, value), from the company select or the notes textarea
HandleChange(field, value) ==
    /\ \E pg \in page :
          /\ pg.isEditing
          /\ pg.formData[field] # value
          /\ page' = {[pg EXCEPT !.formData[field] = value, !.alert = {},
                                  !.rejected = FALSE]}
    /\ UNCHANGED <<store, now, campaigns, loading, updatingId, currentUserProfile,
                   profileFetch, filter, sortMethod, allTasks, pending, alerted,
                   hist, app, contacts>>

HandleCancel ==
    /\ \E pg \in page :
          /\ pg.isEditing
          /\ page' = {[pg EXCEPT !.isEditing = FALSE, !.alert = {},
                                  !.rejected = FALSE]}
    /\ UNCHANGED <<store, now, campaigns, loading, updatingId, currentUserProfile,
                   profileFetch, filter, sortMethod, allTasks, pending, alerted,
                   hist, app, contacts>>

\* Detect Company Change
CompanyChanged(data, formData) ==
    data.company # "" /\ formData.company # "" /\ data.company # formData.company

\* updatedNotes
UpdatedNotes(data, formData, at) ==
    formData.notes \o (IF CompanyChanged(data, formData)
                       THEN MovedLine(at, data.company, formData.company)
                       ELSE <<>>)

\* handleSave up to the await of the update: the notes and the payload are
\* computed from the data and formData of the render of the click.  saving
\* holds the writes that await their response, alert the dialog that the
\* last response opened (the next click finds it closed) and rejected
\* whether a write was rejected since the form was last touched.  This is
\* the click made while no write awaits its response.
HandleSave ==
    /\ \E pg \in page :
          /\ pg.isEditing
          /\ pg.saving = {}
          /\ Len(HistoryMatches(UpdatedNotes(pg.data, pg.formData, now), 1)) <= MaxMoves
          /\ page' = {[pg EXCEPT !.alert = {}, !.saving =
                         {[data |-> pg.data, formData |-> pg.formData, at |-> now,
                           updatedNotes |-> UpdatedNotes(pg.data, pg.formData, now)]}]}
    /\ UNCHANGED <<store, now, campaigns, loading, updatingId, currentUserProfile,
                   profileFetch, filter, sortMethod, allTasks, pending, alerted,
                   hist, app, contacts>>

\* the save button is rendered while isEditing and is never disabled: a
\* click while a write awaits its response starts another write, computed
\* from the data and formData of that render
HandleSaveAgain ==
    /\ \E pg \in page :
          /\ pg.isEditing
          /\ pg.saving # {}
          /\ Cardinality(pg.saving) < MaxInFlight
          /\ Len(HistoryMatches(UpdatedNotes(pg.data, pg.formData, now), 1)) <= MaxMoves
          /\ page' = {[pg EXCEPT !.alert = {}, !.saving = @ \cup
                         {[data |-> pg.data, formData |-> pg.formData, at |-> now,
                           updatedNotes |-> UpdatedNotes(pg.data, pg.formData, now)]}]}
    /\ UNCHANGED <<store, now, campaigns, loading, updatingId, currentUserProfile,
                   profileFetch, filter, sortMethod, allTasks, pending, alerted,
                   hist, app, contacts>>

\* the update was accepted: the row is written, then setData(newData),
\* setFormData(newData), setIsEditing(false); the effect and the memo run
\* again when what they depend on has changed
ContactWriteOk ==
    /\ \E pg \in page : \E sv \in pg.saving :
          LET newData == [sv.formData EXCEPT !.notes = sv.updatedNotes]
          IN  /\ contacts' = [contacts EXCEPT !.name = sv.formData.name,
                                              !.company = sv.formData.company,
                                              !.notes = sv.updatedNotes]
              /\ page' = {[pg EXCEPT
                            !.data = newData,
                            !.formData = newData,
                            !.isEditing = FALSE,
                            !.saving = @ \ {sv},
                            !.alert = IF CompanyChanged(sv.data, sv.formData)
                                      THEN {"moved"} ELSE @,
                            !.fetching = IF newData.company # pg.data.company
                                         THEN @ \cup StartedFetches(newData.company)
                                         ELSE @,
                            !.memoAt = IF newData.notes # pg.data.notes \/
                                          newData.name # pg.data.name
                                       THEN now ELSE @]}
    /\ UNCHANGED <<store, now, campaigns, loading, updatingId, currentUserProfile,
                   profileFetch, filter, sortMethod, allTasks, pending, alerted,
                   hist, app>>

\* a catch block that leaves the edit mode
ContactWriteFail_ClosesForm ==
    /\ \E pg \in page : \E sv \in pg.saving :
          page' = {[pg EXCEPT !.saving = @ \ {sv}, !.alert = {"error"},
                              !.rejected = TRUE, !.isEditing = FALSE]}
    /\ UNCHANGED <<store, now, campaigns, loading, updatingId, currentUserProfile,
                   profileFetch, filter, sortMethod, allTasks, pending, alerted,
                   hist, app, contacts>>

\* the update was rejected: the catch block alerts
ContactWriteFail ==
    /\ \E pg \in page : \E sv \in pg.saving :
          page' = {[pg EXCEPT !.saving = @ \ {sv}, !.alert = {"error"},
                              !.rejected = TRUE]}
    /\ UNCHANGED <<store, now, campaigns, loading, updatingId, currentUserProfile,
                   profileFetch, filter, sortMethod, allTasks, pending, alerted,
                   hist, app, contacts>>

\* the contact page as the days pass: edits that end with a save
NextContact ==
    \/ OpenContact
    \/ \E company \in CompanyNames, hasData \in BOOLEAN :
          FetchRelatedCampaignsDone(company, hasData)
    \/ HandleEditClick
    \/ \E company \in CompanyNames : HandleChange("company", company)
    \/ \E notes \in TypedNotes : HandleChange("notes", notes)
    \/ HandleSave
    \/ ContactWriteOk
    \/ ContactWriteFail
    \/ Tick

SpecContact == InitContact /\ [][NextContact]_vars

\* the contact of a page whose notes textarea is left alone: notes without
\* and with an earlier company change
InitEdit ==
    /\ now = 1
    /\ store = ContactStore
    /\ InitSession
    /\ InitApp
    /\ \E company \in CompanyNames \cup {""},
          notes \in {<<>>, <<"ok">> \o MovedLine(1, "beta", "Acme")} :
          contacts = [name |-> ContactName, company |-> company, notes |-> notes]
    /\ page = {}

\* the contact page within one day, with edits of the company that are
\* saved or cancelled, and with clicks on the save button while a write
\* awaits its response
NextEdit ==
    \/ OpenContact
    \/ HandleEditClick
    \/ \E company \in CompanyNames : HandleChange("company", company)
    \/ HandleCancel
    \/ HandleSave
    \/ HandleSaveAgain
    \/ ContactWriteOk
    \/ ContactWriteFail

SpecEdit == InitEdit /\ [][NextEdit]_vars


(***************************************************************************)
(* Properties of the contact page.                                         *)
(***************************************************************************)
\* the items as they were pushed, and whether all their dates are valid
Pushed(pg) == PushedItems(pg.data, pg.relatedCampaigns, pg.memoAt)
AllDatesValid(items) == \A n \in 1..Len(items) : items[n].date # {}

\* the items of the given date, in their order
OfDate(items, date) == SelectSeq(items, LAMBDA x : x.date = date)

\* tl holds the items of items, each as many times
SameItems(tl, items) ==
    /\ Len(tl) = Len(items)
    /\ \A x \in Range(items) :
          Cardinality({n \in 1..Len(tl) : tl[n] = x})
              = Cardinality({n \in 1..Len(items) : items[n] = x})

MoveSaved ==
    /\ page # {} /\ page' # {}
    /\ \E sv \in TheOne(page).saving :
          /\ CompanyChanged(sv.data, sv.formData)
          /\ contacts'.company = sv.formData.company
          /\ contacts'.company # contacts.company

\* C13: after an accepted save that appends the line of a move from company
\* A to company B at time T, whatever the notes before it, every timeline
\* computed from the saved notes has a company-change event whose date is T
\* and whose description is the message written, "Mudou da empresa A para B".
C13_MovedLineRoundTrip ==
    [][MoveSaved =>
          \A sv \in TheOne(page).saving :
              /\ contacts'.notes = sv.formData.notes
                     \o MovedLine(sv.at, sv.data.company, sv.formData.company)
              /\ TheOne(page').data.notes = contacts'.notes
              /\ \A tl \in TimelineItems(TheOne(page')) :
                    \E n \in 1..Len(tl) :
                        /\ tl[n].type = "job_change"
                        /\ tl[n].date = {sv.at}
                        /\ tl[n].description =
                               MovedMessage(sv.data.company, sv.formData.company)]_vars

\* the page shows saved notes that end with the line of a move written on
\* day 2 or later, after notes that held a marker already
C13_Witness ==
    \E pg \in page : \E t \in 2..MaxNow, from \in CompanyNames :
        LET line == MovedLine(t, from, contacts.company)
            notes == contacts.notes
        IN  /\ pg.data.notes = notes
            /\ ~pg.isEditing
            /\ Len(notes) > Len(line)
            /\ SubSeq(notes, Len(notes) - Len(line) + 1, Len(notes)) = line
            /\ notes[1] = "[HISTORY:"
            /\ \E tl \in TimelineItems(pg) : \E n \in 1..Len(tl) :
                  tl[n].type = "job_change" /\ tl[n].date = {t}

\* C14 as stated: whenever a save changes the stored company of the
\* contact, the notes stored after it are the notes stored before it
\* followed by one new company-change line (so that every history line stored
\* before is still there, unchanged and in its place).
C14_SaveAppendsToStoredNotes ==
    [][contacts'.company # contacts.company =>
          \E t \in 1..MaxNow :
              contacts'.notes
                  = contacts.notes \o MovedLine(t, contacts.company, contacts'.company)]_vars


\* the events of a timeline that are the completed task of the step
TaskEvents(tl, step) ==
    {n \in 1..Len(tl) : tl[n].id.prefix = "task-" /\ tl[n].id.step = step.id}

\* the step is completed, and has no target or the contact for target
CompletedForContact(step, data) ==
    /\ step.completed
    /\ step.targetContactName \in {{}, {""}, {data.name}}

\* C15 as stated: a timeline has one task-completed event for a step of a
\* related campaign when the step is completed and its target is empty or
\* the contact's name, and none otherwise; the event is dated the campaign's
\* created_at plus the step's day and its description names the step's owner.
C15_TaskEventAtCreatedAtByOwner ==
    \A pg \in page : \A tl \in TimelineItems(pg) :
        \A k \in 1..Len(pg.relatedCampaigns) :
            LET camp == pg.relatedCampaigns[k]
            IN  \A i \in 1..Len(camp.steps) :
                    LET step == camp.steps[i]
                    IN  IF CompletedForContact(step, pg.data)
                        THEN /\ Cardinality(TaskEvents(tl, step)) = 1
                             /\ \A n \in TaskEvents(tl, step) :
                                   /\ camp.created_at # {}
                                   /\ tl[n].date = {TheOne(camp.created_at) + step.day}
                                   /\ step.owner # {}
                                   /\ tl[n].description
                                          = <<"Executado por: ", TheOne(step.owner)>>
                        ELSE TaskEvents(tl, step) = {}

\* C15: a timeline has one task-completed event for a step of a related
\* campaign when the step is completed and its target is empty or the
\* contact's name, and none otherwise; the event is dated the step's day
\* after the campaign's created_at, or after the time the timeline was
\* computed when the campaign has no created_at, and its description names
\* the step's owner, or 'Sistema' when the step has none.
C15_TaskEventPerCompletedStep ==
    \A pg \in page : \A tl \in TimelineItems(pg) :
        \A k \in 1..Len(pg.relatedCampaigns) :
            LET camp == pg.relatedCampaigns[k]
                start == IF camp.created_at # {} THEN TheOne(camp.created_at)
                         ELSE pg.memoAt
            IN  \A i \in 1..Len(camp.steps) :
                    LET step == camp.steps[i]
                        by == IF step.owner \in {{}, {""}} THEN "Sistema"
                              ELSE TheOne(step.owner)
                    IN  IF CompletedForContact(step, pg.data)
                        THEN /\ Cardinality(TaskEvents(tl, step)) = 1
                             /\ \A n \in TaskEvents(tl, step) :
                                   /\ tl[n].date = {start + step.day}
                                   /\ tl[n].description = <<"Executado por: ", by>>
                        ELSE TaskEvents(tl, step) = {}

\* the page shows a campaign with a completed step whose target is the
\* contact, next to a step that is not completed, a day after it was opened
C15_Witness ==
    \E pg \in page :
        /\ pg.memoAt < now
        /\ \E k \in 1..Len(pg.relatedCampaigns) :
              LET steps == pg.relatedCampaigns[k].steps
              IN  /\ \E i \in 1..Len(steps) :
                        steps[i].completed /\ steps[i].targetContactName = {pg.data.name}
                  /\ \E i \in 1..Len(steps) : ~steps[i].completed
        /\ \E tl \in TimelineItems(pg) : \E n \in 1..Len(tl) : tl[n].id.prefix = "task-"

\* C16: every timeline of the contact page, whatever the contact's company,
\* related campaigns and notes, holds exactly one creation event.
C16_OneCreationEvent ==
    \A pg \in page : \A tl \in TimelineItems(pg) :
        Cardinality({n \in 1..Len(tl) : tl[n].type = "creation"}) = 1

\* the page of a contact without company, campaigns and notes, and its
\* timeline of the creation event alone
C16_Witness ==
    \E pg \in page :
        /\ pg.data.company = ""
        /\ pg.data.notes = <<>>
        /\ pg.relatedCampaigns = <<>>
        /\ \E tl \in TimelineItems(pg) : Len(tl) = 1 /\ tl[1].type = "creation"


\* the text without its company-change markers, those of the grammar
\* [HISTORY:MOVED:<ISO-date>] <message>, from position i on
RECURSIVE WithoutMovedMarkers(_, _)
WithoutMovedMarkers(text, i) ==
    IF i > Len(text) THEN <<>>
    ELSE LET j == IF text[i] = "[HISTORY:" /\ i < Len(text) /\ text[i + 1] = "MOVED:"
                  THEN FindCloser(text, i + 2) ELSE 0
         IN  IF j # 0 /\ NewDate(SubSeq(text, i + 2, j - 1)) # {}
             THEN WithoutMovedMarkers(text, LineEnd(text, j + 2) + 1)
             ELSE <<text[i]>> \o WithoutMovedMarkers(text, i + 1)

\* the pieces of a text that are not blanks or line breaks
NonBlank(text) == SelectSeq(text, LAMBDA x : x \notin WhiteSpace)

\* C20 as stated: outside editing mode the displayed notes hold no
\* company-change marker, and hold everything of the notes that is not part
\* of a company-change marker [HISTORY:MOVED:<ISO-date>] <message> (blanks
\* and line breaks aside).
C20_DisplayHidesOnlyMarkers ==
    \A pg \in page :
        ~pg.isEditing =>
            /\ HistoryMatches(DisplayNotes(pg), 1) = <<>>
            /\ NonBlank(DisplayNotes(pg))
                   = NonBlank(WithoutMovedMarkers(pg.data.notes, 1))


(***************************************************************************)
(* The Tasks model: one session over a store of two campaigns, with the    *)
(* filter control, and no editor.                                          *)
(***************************************************************************)
TheSession == "A"
InitTasks ==
    /\ now = 1
    /\ store = [c \in CampaignIds |->
                   IF c = "c1"
                   THEN Row("Q1", {"Acme"}, NewJourney(1), {1},
                            SaveAggregates(NewJourney(1)))
                   ELSE Row("Q2", {"beta"}, NewJourney(2), {},
                            SaveAggregates(NewJourney(2)))]
    /\ InitSession
    /\ InitApp
    /\ NoContactPage

NextTasks ==
    \/ SessionNext(TheSession)
    \/ \E f \in {"pending", "completed"} : SetFilter(TheSession, f)

SpecTasks == InitTasks /\ [][NextTasks]_vars

\* the awaited update settles: its promise resolves with or without an error
ResponseArrives(s) == ToggleWriteOk(s) \/ ToggleWriteFail(s)

SpecTasksLive == SpecTasks /\ WF_vars(ResponseArrives(TheSession))

(***************************************************************************)
(* Claims on the toggle of a task.                                         *)
(***************************************************************************)
\* the positions of the steps of a list that carry the id
PositionsOf(steps, id) == {i \in 1..Len(steps) : steps[i].id = id}

\* the aggregates of the body of an update
WrittenAggregates(body) ==
    [sent |-> body.sent, total_points |-> body.total_points,
     progress |-> body.progress]

\* C21: the step list a toggle writes differs from the session's copy of the
\* campaign's steps in the completed flag of the one step with the task's id
\* and in nothing else, and the aggregates written with it are the ones
\* handleSaveCampaign computes for the written list
C21_ToggleWritesOneFlag ==
    \A s \in Sessions : \A p \in pending[s] :
        LET written == p.body.steps
            copy    == TheOne(FindCampaign(campaigns[s], p.cid)).steps
        IN  /\ p.base = copy
            /\ Len(written) = Len(copy)
            /\ Cardinality(PositionsOf(copy, p.sid)) = 1
            /\ \A i \in 1..Len(copy) :
                  IF copy[i].id = p.sid
                  THEN /\ written[i].completed = ~copy[i].completed
                       /\ [written[i] EXCEPT !.completed = copy[i].completed] = copy[i]
                  ELSE written[i] = copy[i]
            /\ WrittenAggregates(p.body) = SaveAggregates(written)

\* a toggle of a pending step of a list with a Wait step and with another
\* step already completed
C21_Witness ==
    \E s \in Sessions : \E p \in pending[s] :
        /\ \E i \in PositionsOf(p.base, p.sid) : ~p.base[i].completed
        /\ \E i \in 1..Len(p.base) : p.base[i].type = "Wait"
        /\ \E i \in 1..Len(p.base) : p.base[i].id # p.sid /\ p.base[i].completed
        /\ p.body.sent = 2


\* session s leaves handleCompleteTask through its catch block
ToggleRejected(s) == pending[s] # {} /\ pending'[s] = {} /\ hist' = hist

\* C22: a rejected toggle write leaves the session's campaign list and the
\* displayed tasks as they were, alerts the user, starts no refresh and no
\* second write, and leaves the toggle buttons enabled
C22_RejectedToggleOnlyAlerts ==
    [][\A s \in Sessions : ToggleRejected(s) =>
          /\ campaigns'[s] = campaigns[s]
          /\ allTasks'[s] = allTasks[s]
          /\ Displayed(s)' = Displayed(s)
          /\ store' = store
          /\ alerted'[s]
          /\ loading'[s] = loading[s]
          /\ pending'[s] = {}
          /\ updatingId[s] # {}
          /\ updatingId'[s] = {} /\ ~loading'[s]]_vars

\* a session whose toggle was rejected: alerted, its list shown, no write made
C22_Witness ==
    \E s \in Sessions :
        /\ alerted[s] /\ pending[s] = {} /\ hist = <<>>
        /\ updatingId[s] = {} /\ ~loading[s]
        /\ Len(Displayed(s)) > 0


\* the last write is a toggle that went through
LastIsToggle == hist # <<>> /\ hist[Len(hist)].op = "toggle"

\* the columns of a row that the body of a toggle does not name
UntouchedColumns(r) ==
    [name |-> r.name, target_company |-> r.target_company,
     status |-> r.status, created_at |-> r.created_at]

\* C30: an accepted toggle write changes steps, progress, sent and
\* total_points of the row of the task's campaign and nothing else: the
\* other columns of that row and every other row stay as they were
C30_ToggleWritesOneRow ==
    [][(Len(hist') = Len(hist) + 1 /\ LastIsToggle') =>
          LET w == hist'[Len(hist')]
          IN  /\ DOMAIN store' = DOMAIN store
              /\ \A c \in DOMAIN store :
                    IF c = w.cid
                    THEN UntouchedColumns(store'[c]) = UntouchedColumns(store[c])
                    ELSE store'[c] = store[c]]_vars

\* a toggle was written to one campaign and the other campaign's row differs
\* from it in its steps
C30_Witness ==
    /\ LastIsToggle
    /\ \E c \in DOMAIN store :
          /\ c # hist[Len(hist)].cid
          /\ store[c].steps # store[hist[Len(hist)].cid].steps
          /\ store[c].sent # store[hist[Len(hist)].cid].sent


\* the completed flag of the step with the id in a step list
FlagOf(steps, id) == {steps[i].completed : i \in PositionsOf(steps, id)}

\* C25: when a session's accepted toggle of step A is followed by its
\* accepted toggle of another step B of the same campaign, the list written
\* for B still carries the flag that the toggle of A wrote
C25_LaterToggleKeepsEarlier ==
    Len(hist) >= 2 =>
        LET a == hist[Len(hist) - 1]
            b == hist[Len(hist)]
        IN  (/\ a.op = "toggle" /\ b.op = "toggle"
             /\ a.who = b.who /\ a.cid = b.cid /\ a.sid # b.sid)
            => FlagOf(store[b.cid].steps, a.sid)
                  = FlagOf(FlipStep(a.base, a.sid), a.sid)


\* session s starts a toggle write
ToggleStarted(s) == pending'[s] # pending[s] /\ pending'[s] # {}

\* C26: a session starts a toggle write only when its updatingId is null
\* and its list is not loading, and so has at most one write awaiting its
\* response
C26_OneToggleInFlight ==
    [][\A s \in Sessions : ToggleStarted(s) =>
          /\ updatingId[s] = {} /\ ~loading[s]
          /\ pending[s] = {}
          /\ Cardinality(pending'[s]) = 1
          /\ updatingId'[s] # {}]_vars

\* a second toggle of a session awaits its response, after its first one
\* was accepted and the list was refreshed
C26_Witness ==
    \E s \in Sessions :
        /\ pending[s] # {} /\ updatingId[s] # {}
        /\ hist # <<>> /\ hist[1].who = s /\ hist[1].op = "toggle"


\* C27: whenever updatingId is set it is null again later, on the accepted
\* and on the rejected path; the early return sets and clears it in one turn
C27_UpdatingIdIsReset ==
    \A s \in {TheSession} : (updatingId[s] # {}) ~> (updatingId[s] = {})

\* the session is idle again after an accepted and then a rejected toggle
C27_Witness ==
    /\ updatingId[TheSession] = {} /\ pending[TheSession] = {}
    /\ alerted[TheSession]
    /\ LastIsToggle


(***************************************************************************)
(* Claims on the saves of a campaign.                                      *)
(***************************************************************************)
\* C24: once a stored campaign has a created_at, no step changes it
C24_CreatedAtNeverChanges ==
    [][\A c \in DOMAIN store \cap DOMAIN store' :
          store[c].created_at # {} => store'[c].created_at = store[c].created_at]_vars


(***************************************************************************)
(* Claims on the saves of a contact.                                       *)
(***************************************************************************)
\* the number of history markers of a notes text
Markers(notes) == Len(HistoryMatches(notes, 1))

\* the response to the write sv of the page pg has arrived
Answered(pg, sv) ==
    sv \in pg.saving /\ \A pg2 \in page' : pg2.saving = pg.saving \ {sv}

\* C23: a rejected write of a contact save leaves the stored contact and the
\* page's data and form as they were, leaves the view in the mode it was
\* in and alerts the user; and when a write of the untouched form is
\* accepted after a rejection, the stored notes are the ones stored before
\* followed by exactly one history line
C23_RejectedSaveThenRetry ==
    [][/\ ContactWriteFail =>
            /\ contacts' = contacts
            /\ \A pg \in page : \A pg2 \in page' :
                  /\ pg2.data = pg.data /\ pg2.formData = pg.formData
                  /\ pg2.isEditing = pg.isEditing
                  /\ pg2.alert = {"error"}
                  /\ Markers(pg2.data.notes) = Markers(contacts.notes)
       /\ ContactWriteOk =>
            \A pg \in page : \A sv \in pg.saving :
                (/\ Answered(pg, sv)
                 /\ pg.rejected /\ pg.isEditing
                 /\ sv.data = pg.data /\ sv.formData = pg.formData
                 /\ CompanyChanged(sv.data, sv.formData))
                => /\ contacts'.notes =
                        contacts.notes \o MovedLine(sv.at, sv.data.company,
                                                    sv.formData.company)
                   /\ Markers(contacts'.notes) = Markers(contacts.notes) + 1]_vars

\* a company change was rejected and then, with the form untouched, accepted
C23_Witness ==
    \E pg \in page :
        /\ pg.rejected /\ pg.alert = {"moved"}
        /\ ~pg.isEditing /\ pg.saving = {}
        /\ contacts.company = pg.data.company
        /\ contacts.notes = pg.data.notes
        /\ Markers(contacts.notes) > 0


\* the step is the accepted response to a write whose handler detected a
\* company change
AcceptedMove ==
    /\ ContactWriteOk
    /\ \E pg \in page : \E sv \in pg.saving :
          /\ Answered(pg, sv)
          /\ contacts'.company = sv.formData.company
          /\ contacts'.notes = sv.updatedNotes
          /\ CompanyChanged(sv.data, sv.formData)

\* C29: with the notes textarea left alone, every accepted save that changed
\* the company from a non-empty value to another one adds one history marker
\* to the stored notes, and no other step changes their number
C29_MarkersCountMoves ==
    [][Markers(contacts'.notes)
          = Markers(contacts.notes) + (IF AcceptedMove THEN 1 ELSE 0)]_vars


\* C28: when the fetch for the contact's current company has completed and
\* its campaigns are the related campaigns, the completion of a fetch that
\* was started for an earlier company leaves them in place
C28_EarlierFetchKeepsLaterResult ==
    [][\A pg \in page : \A pg2 \in page' :
          \A company \in pg.fetching \ pg2.fetching :
              (/\ company # pg.data.company
               /\ pg.data.company \notin pg.fetching
               /\ pg.relatedCampaigns = RelatedRows(store, pg.data.company, 1))
              => pg2.relatedCampaigns = RelatedRows(store, pg2.data.company, 1)]_vars

=============================================================================
